---------------------------- MODULE Spec2Model ----------------------------
(***************************************************************************)
(* backlightd: the display control core (clamped values, brightness        *)
(* scales, command dispatch over the display collection).                  *)
(*                                                                         *)
(* Numbers.  The scale computes in f32 (scale.rs); the model computes the  *)
(* same IEEE-754 binary32 results (24-bit significand, round to nearest,   *)
(* ties to even) with integer arithmetic.  usize values are integers; the  *)
(* stored level is an i8.                                                  *)
(***************************************************************************)
EXTENDS Integers, Sequences, FiniteSets, TLC

(***************************************************************************)
(* Integer helpers.                                                        *)
(***************************************************************************)
\* 2^n for 0 <= n <= 30.
Pow2Table ==
    << 1, 2, 4, 8, 16, 32, 64, 128, 256, 512, 1024, 2048, 4096, 8192, 16384,
       32768, 65536, 131072, 262144, 524288, 1048576, 2097152, 4194304,
       8388608, 16777216, 33554432, 67108864, 134217728, 268435456,
       536870912, 1073741824 >>
Pow2(n) == Pow2Table[n + 1]

RECURSIVE BitLen(_)
BitLen(n) == IF n <= 0 THEN 0 ELSE 1 + BitLen(n \div 2)

RECURSIVE TrailingZeros(_)
TrailingZeros(n) == IF n <= 0 \/ n % 2 = 1 THEN 0 ELSE 1 + TrailingZeros(n \div 2)

Max2(a, b) == IF a >= b THEN a ELSE b

(***************************************************************************)
(* f32.  A finite value is (-1)^s * m * 2^e with 0 <= m < 2^24; zero is    *)
(* m = 0.  Infinities and NaN are separate kinds.                          *)
(***************************************************************************)
F32Zero(s) == [k |-> "fin", s |-> s, m |-> 0, e |-> 0]
F32Inf(s) == [k |-> "inf", s |-> s, m |-> 0, e |-> 0]
F32NaN == [k |-> "nan", s |-> 0, m |-> 0, e |-> 0]

\* A finite f32 from a sign, a significand below 2^24 and an exponent:
\* zero for m = 0, infinite when the value is 2^128 or more.
F32Pack(s, m, e) ==
    IF m = 0 THEN F32Zero(s)
    ELSE IF e + BitLen(m) > 128 THEN F32Inf(s)
    ELSE [k |-> "fin", s |-> s, m |-> m, e |-> e]

\* A significand that rounding carried up to 2^24 is renormalised.
F32Carry(s, m, e) ==
    IF m = Pow2(24) THEN F32Pack(s, Pow2(23), e + 1) ELSE F32Pack(s, m, e)

\* q is the kept part, r the dropped part and half the weight of the first
\* dropped bit: round to nearest, ties to the even significand.
F32Nearest(s, q, r, half, e, sticky) ==
    IF r > half \/ (r = half /\ (sticky \/ q % 2 = 1))
    THEN F32Carry(s, q + 1, e)
    ELSE F32Carry(s, q, e)

F32Shift(s, n, e, sticky, shift) ==
    IF shift <= 0 THEN F32Pack(s, n, e)
    ELSE F32Nearest(s, n \div Pow2(shift), n % Pow2(shift), Pow2(shift - 1),
                    e + shift, sticky)

\* Round the exact value (-1)^s * (n + t) * 2^e to the nearest f32, where
\* 0 <= t < 1 is nonzero exactly when sticky holds.  Results below the
\* normal range are rounded at the subnormal exponent -149.
F32Round(s, n, e, sticky) ==
    IF n = 0 THEN F32Zero(s)
    ELSE F32Shift(s, n, e, sticky, Max2(BitLen(n) - 24, (0 - 149) - e))

\* `x as f32` for an integer x (usize or i8) of magnitude below 2^31.
F32FromInt(x) == F32Round(IF x >= 0 THEN 0 ELSE 1, IF x >= 0 THEN x ELSE 0 - x, 0, FALSE)

F32Neg(a) == IF a.k = "nan" THEN a ELSE [a EXCEPT !.s = 1 - a.s]

\* The significand with its trailing zero bits moved into the exponent.
F32OddBy(a, tz) == [m |-> a.m \div Pow2(tz), e |-> a.e + tz]
F32Odd(a) == F32OddBy(a, TrailingZeros(a.m))

\* The significand shifted up to 24 bits (for a nonzero finite value).
F32NormBy(a, sh) == [s |-> a.s, m |-> a.m * Pow2(sh), e |-> a.e - sh]
F32Norm(a) == F32NormBy(a, 24 - BitLen(a.m))

\* x + y for normalised finite x, y with |x| >= |y|.  Both are aligned at
\* x's exponent with three extra low bits (guard, round, sticky), as a
\* hardware adder does: xs and ys are the aligned significands, lost tells
\* whether bits of y fell off.
F32AddSignificands(sx, sy, xs, ys, e) ==
    IF sx = sy THEN F32Round(sx, xs + ys, e, FALSE)
    ELSE IF xs = ys THEN F32Zero(0)
    ELSE F32Round(sx, xs - ys, e, FALSE)

F32AddSticky(sx, sy, xs, ys0, lost, e) ==
    F32AddSignificands(sx, sy, xs, IF lost /\ ys0 % 2 = 0 THEN ys0 + 1 ELSE ys0, e)

F32AddAligned(x, y, d) ==
    IF d >= 28 THEN F32AddSticky(x.s, y.s, x.m * 8, 0, TRUE, x.e - 3)
    ELSE F32AddSticky(x.s, y.s, x.m * 8, (y.m * 8) \div Pow2(d),
                      ((y.m * 8) % Pow2(d)) # 0, x.e - 3)

F32AddOrdered(na, nb) ==
    IF na.e > nb.e \/ (na.e = nb.e /\ na.m >= nb.m)
    THEN F32AddAligned(na, nb, na.e - nb.e)
    ELSE F32AddAligned(nb, na, nb.e - na.e)

\* a + b
F32Add(a, b) ==
    IF a.k = "nan" \/ b.k = "nan" THEN F32NaN
    ELSE IF a.k = "inf" /\ b.k = "inf" THEN (IF a.s = b.s THEN a ELSE F32NaN)
    ELSE IF a.k = "inf" THEN a
    ELSE IF b.k = "inf" THEN b
    ELSE IF a.m = 0 /\ b.m = 0 THEN F32Zero(IF a.s = 1 /\ b.s = 1 THEN 1 ELSE 0)
    ELSE IF a.m = 0 THEN b
    ELSE IF b.m = 0 THEN a
    ELSE F32AddOrdered(F32Norm(a), F32Norm(b))

F32Sub(a, b) == F32Add(a, F32Neg(b))

\* a * b.  The product of the two odd significands is exact in the model's
\* integers for the operands the scale multiplies (an i8 by an f32).
F32MulOdd(s, oa, ob) == F32Round(s, oa.m * ob.m, oa.e + ob.e, FALSE)

F32Mul(a, b) ==
    IF a.k = "nan" \/ b.k = "nan" THEN F32NaN
    ELSE IF a.k = "inf" \/ b.k = "inf"
         THEN IF (a.k = "fin" /\ a.m = 0) \/ (b.k = "fin" /\ b.m = 0) THEN F32NaN
              ELSE F32Inf((a.s + b.s) % 2)
    ELSE IF a.m = 0 \/ b.m = 0 THEN F32Zero((a.s + b.s) % 2)
    ELSE F32MulOdd((a.s + b.s) % 2, F32Odd(a), F32Odd(b))

\* a / b, for a divisor whose odd significand is small (9.0, a power of two).
F32DivOdd(s, na, ob) ==
    F32Round(s, (na.m * 64) \div ob.m, na.e - 6 - ob.e, ((na.m * 64) % ob.m) # 0)

F32Div(a, b) ==
    IF a.k = "nan" \/ b.k = "nan" THEN F32NaN
    ELSE IF a.k = "inf" THEN (IF b.k = "inf" THEN F32NaN ELSE F32Inf((a.s + b.s) % 2))
    ELSE IF b.k = "inf" THEN F32Zero((a.s + b.s) % 2)
    ELSE IF b.m = 0 THEN (IF a.m = 0 THEN F32NaN ELSE F32Inf((a.s + b.s) % 2))
    ELSE IF a.m = 0 THEN F32Zero((a.s + b.s) % 2)
    ELSE F32DivOdd((a.s + b.s) % 2, F32Norm(a), F32Odd(b))

\* f32::log2, exact on the powers of two; log2(0) is -inf, log2 of a
\* negative number is NaN.  Other arguments are outside the model (no value).
F32Log2Odd(oa) == IF oa.m = 1 THEN F32FromInt(oa.e) ELSE CHOOSE x \in {} : TRUE

F32Log2(a) ==
    IF a.k = "nan" THEN F32NaN
    ELSE IF a.k = "inf" THEN (IF a.s = 0 THEN a ELSE F32NaN)
    ELSE IF a.m = 0 THEN F32Inf(1)
    ELSE IF a.s = 1 THEN F32NaN
    ELSE F32Log2Odd(F32Odd(a))

\* The integer value of a finite f32 that holds an integer.
F32ToIntAbs(a) == IF a.e >= 0 THEN a.m * Pow2(a.e) ELSE a.m \div Pow2(0 - a.e)
F32ToInt(a) == IF a.s = 1 THEN 0 - F32ToIntAbs(a) ELSE F32ToIntAbs(a)

\* 2^x as an f32: overflows to +inf, underflows to 0.
F32Exp2Int(x) ==
    IF x >= 128 THEN F32Inf(0)
    ELSE IF x < 0 - 149 THEN F32Zero(0)
    ELSE [k |-> "fin", s |-> 0, m |-> 1, e |-> x]

\* f32::powf(gamma, f) for gamma = 2.0 and an integer-valued, infinite or
\* NaN exponent f, where 2^f is exact.
F32Powf(gamma, f) ==
    IF f.k = "nan" THEN F32NaN
    ELSE IF f.k = "inf" THEN (IF f.s = 0 THEN F32Inf(0) ELSE F32Zero(0))
    ELSE F32Exp2Int(F32ToInt(f))

\* usize::MAX stands for every value beyond the model's integers: it only
\* ever meets a device bound in a comparison.
UsizeMax == Pow2(30) + (Pow2(30) - 1)

\* `x as usize`: truncation toward zero, saturating; NaN becomes 0.
F32AsUsize(a) ==
    IF a.k = "nan" THEN 0
    ELSE IF a.k = "inf" THEN (IF a.s = 0 THEN UsizeMax ELSE 0)
    ELSE IF a.s = 1 \/ a.m = 0 THEN 0
    ELSE IF a.e + BitLen(a.m) > 31 THEN UsizeMax
    ELSE IF a.e >= 0 THEN a.m * Pow2(a.e)
    ELSE IF 0 - a.e >= 31 THEN 0
    ELSE a.m \div Pow2(0 - a.e)

(***************************************************************************)
(* Option<T>: None is the empty sequence, Some(v) the one-element one.     *)
(***************************************************************************)
None == << >>
Some(v) == << v >>
unwrap_or(o, d) == IF o = None THEN d ELSE o[1]

(***************************************************************************)
(* clamped.rs: ClampedValue<T>, a value tagged Min, Max or Intermediate.   *)
(***************************************************************************)
Min(v) == [tag |-> "Min", v |-> v]
Max(v) == [tag |-> "Max", v |-> v]
Intermediate(v) == [tag |-> "Intermediate", v |-> v]

\* A variant of new that tests the floor before the ceiling.
ClampedValue_new_min_first(v, min, max) ==
    IF v <= min THEN [tag |-> "Min", v |-> min]
    ELSE IF v >= max THEN [tag |-> "Max", v |-> max]
    ELSE [tag |-> "Intermediate", v |-> v]

ClampedValue_new(v, min, max) ==
    IF v >= max THEN Max(max)
    ELSE IF v <= min THEN Min(min)
    ELSE Intermediate(v)

is_max(self) == self.tag = "Max"
is_min(self) == self.tag = "Min"
is_intermediate(self) == self.tag = "Intermediate"
value(self) == self.v
\* Deref: *v is the payload whatever the tag.
deref(self) == self.v

(***************************************************************************)
(* main.rs constants.                                                      *)
(***************************************************************************)
STEPS_IN_REFERENCE_RANGE == 9
DEFAULT_LEVEL == 4

(***************************************************************************)
(* scale.rs: ScaleBuilder and BrightnessScale.                             *)
(***************************************************************************)
Linear == [tag |-> "Linear", gamma |-> F32Zero(0)]
Exp2(gamma) == [tag |-> "Exp2", gamma |-> gamma]

ScaleBuilder_new ==
    [kind |-> None, max_value |-> None, min_value |-> None,
     ref_max |-> None, ref_min |-> None]

\* A variant of linear_factor that divides the reference range into ten steps.
linear_factor_ten(ref_max, ref_min) ==
    F32Div(F32Sub(ref_max, ref_min), F32FromInt(STEPS_IN_REFERENCE_RANGE + 1))

linear_factor(ref_max, ref_min) ==
    F32Div(F32Sub(ref_max, ref_min), F32FromInt(STEPS_IN_REFERENCE_RANGE))

\* A variant of exp2_factor that takes the difference of the logarithms the
\* other way round.
exp2_factor_swapped(ref_max, ref_min) ==
    F32Div(F32Sub(F32Log2(ref_min), F32Log2(ref_max)),
           F32FromInt(STEPS_IN_REFERENCE_RANGE))

exp2_factor(ref_max, ref_min) ==
    F32Div(F32Sub(F32Log2(ref_max), F32Log2(ref_min)),
           F32FromInt(STEPS_IN_REFERENCE_RANGE))

idx_factor(kind, ref_max, ref_min) ==
    IF kind.tag = "Linear" THEN linear_factor(ref_max, ref_min)
    ELSE exp2_factor(ref_max, ref_min)

\* The Ok(BrightnessScale { .. }) of make, from its local bindings.
make_scale(kind, max_value, min_value, ref_max, ref_min) ==
    [ok |-> TRUE,
     scale |-> [kind |-> kind,
                idx_factor |-> idx_factor(kind, ref_max, ref_min),
                max_value |-> max_value,
                min_value |-> min_value,
                ref_max |-> ref_max,
                ref_min |-> ref_min,
                level |-> DEFAULT_LEVEL]]

\* make after max_value and min_value are bound.
make_bounds(self, max_value, min_value) ==
    make_scale(unwrap_or(self.kind, Linear), max_value, min_value,
               F32FromInt(unwrap_or(self.ref_max, max_value)),
               F32FromInt(unwrap_or(self.ref_min, min_value)))

\* A variant of make that supplies a ceiling when none was set.
make_default_max(self) ==
    make_bounds(self, unwrap_or(self.max_value, 128), unwrap_or(self.min_value, 0))

\* Result<BrightnessScale, Error>
make(self) ==
    IF self.max_value = None
    THEN [ok |-> FALSE, err |-> "MaxBrightnessRequired"]
    ELSE make_bounds(self, self.max_value[1], unwrap_or(self.min_value, 0))

\* A variant of value_for that clamps to the reference bounds.
value_for_scaled_ref(self, f) ==
    ClampedValue_new(
        F32AsUsize(IF self.kind.tag = "Linear" THEN F32Sub(self.ref_max, f)
                   ELSE F32Div(self.ref_max, F32Powf(self.kind.gamma, f))),
        F32AsUsize(self.ref_min), F32AsUsize(self.ref_max))

\* value_for after `let f = f as f32 * self.idx_factor`.
value_for_scaled(self, f) ==
    ClampedValue_new(
        F32AsUsize(IF self.kind.tag = "Linear" THEN F32Sub(self.ref_max, f)
                   ELSE F32Div(self.ref_max, F32Powf(self.kind.gamma, f))),
        self.min_value, self.max_value)

value_for(self, f) == value_for_scaled(self, F32Mul(F32FromInt(f), self.idx_factor))

get_brightness(self) == value_for(self, self.level)

\* The i8 result of an arithmetic step that left the i8 range, in a build
\* without overflow checks (two's complement wrap-around).
i8_wrap(x) == ((x + 128) % 256) - 128
i8_in_range(x) == x >= 0 - 128 /\ x <= 127

\* up/down/set_level mutate the scale and return the clamped value: the
\* model's result is [self: the scale afterwards, ret: the value returned,
\* panic].  `self.level -= 1` on an i8 at -128 panics in a build with
\* overflow checks (the debug profile) and wraps in one without (the
\* release profile); a call that panics returns nothing and ret is idle.
scale_result(self, panic) ==
    [self |-> self, ret |-> value_for(self, self.level), panic |-> panic]

\* The level becomes l, the result of the i8 arithmetic.
assign_level(self, l, overflow_checks) ==
    IF ~i8_in_range(l) /\ overflow_checks THEN scale_result(self, TRUE)
    ELSE scale_result([self EXCEPT !.level = i8_wrap(l)], FALSE)

up(self, overflow_checks) == assign_level(self, self.level - 1, overflow_checks)

\* A variant of down that steps two levels.
down_by_two(self, overflow_checks) == assign_level(self, self.level + 2, overflow_checks)

down(self, overflow_checks) == assign_level(self, self.level + 1, overflow_checks)

set_level(self, v) == scale_result([self EXCEPT !.level = v], FALSE)

set_to_default(self) == set_level(self, DEFAULT_LEVEL)

(***************************************************************************)
(* main.rs: ControlMethod and Display.  The payload of a control method    *)
(* (a path, a ddcutil display number, a sway output name) belongs to one   *)
(* display and is left out.                                                *)
(*                                                                         *)
(* The dispatch functions work on a world w:                               *)
(*   displays  the display collection (config.displays)                    *)
(*   dpms      per display, what its sysfs power node reads back           *)
(*   swaysock  the SWAYSOCK environment variable                           *)
(*   calls     the Display methods called, in order                        *)
(*   hw        the hardware operations attempted (file reads and writes,   *)
(*             spawned programs), in order, with their outcome             *)
(*   panic     the thread has panicked                                     *)
(* `fail` is the set of displays whose hardware operations fail while the  *)
(* command is dispatched (I/O error, program cannot be spawned).           *)
(***************************************************************************)
SysFS == [tag |-> "SysFS"]
DDCUtil == [tag |-> "DDCUtil"]
SwayDPMS == [tag |-> "SwayDPMS"]

Call(w, i, op) == [w EXCEPT !.calls = Append(@, [d |-> i, op |-> op])]
Hw(w, i, op, v, ok) ==
    [w EXCEPT !.hw = Append(@, [d |-> i, op |-> op, v |-> v, ok |-> ok])]

\* Result<bool, Error>: [w, ok, v]
\* The power node is read and compared with `expected`; a display without
\* a sysfs power node answers Err(NoBacklightStatus).
read_dpms(w, i, expected, fail) ==
    IF w.displays[i].dpms_control = Some(SysFS)
    THEN [w |-> Hw(w, i, "read_dpms", 0, i \notin fail), ok |-> i \notin fail,
          v |-> (i \notin fail /\ w.dpms[i] = expected)]
    ELSE [w |-> w, ok |-> FALSE, v |-> FALSE]

is_on(w, i, fail) == read_dpms(Call(w, i, "is_on"), i, "0\n", fail)

is_off(w, i, fail) == read_dpms(Call(w, i, "is_off"), i, "4\n", fail)

set_brightness(w, i, v, fail) ==
    IF w.displays[i].brightness_control = Some(SysFS)
    THEN Hw(w, i, "write_brightness", v, i \notin fail)
    ELSE IF w.displays[i].brightness_control = Some(DDCUtil)
    THEN Hw(w, i, "ddcutil_setvcp", v, i \notin fail)
    ELSE w

\* `let x = self.scale.<op>(); self.set_brightness(*x)` where r is the
\* result of the scale operation.
set_brightness_from(w, i, r, fail) ==
    IF r.panic THEN [w EXCEPT !.panic = TRUE]
    ELSE set_brightness([w EXCEPT !.displays[i].scale = r.self], i, deref(r.ret), fail)

set_brightness_level(w, i, level, fail) ==
    set_brightness_from(Call(w, i, "set_brightness_level"), i,
                        set_level(w.displays[i].scale, level), fail)

brightness_up(w, i, fail) ==
    set_brightness_from(Call(w, i, "brightness_up"), i,
                        up(w.displays[i].scale, w.overflow_checks), fail)

brightness_down(w, i, fail) ==
    set_brightness_from(Call(w, i, "brightness_down"), i,
                        down(w.displays[i].scale, w.overflow_checks), fail)

\* A successful write of "0" (resp. "4") to the power node is read back
\* as "0\n" (resp. "4\n").
write_dpms(w, i, v, readback, fail) ==
    IF i \in fail THEN Hw(w, i, "write_dpms", v, FALSE)
    ELSE [Hw(w, i, "write_dpms", v, TRUE) EXCEPT !.dpms[i] = readback]

\* A variant of set_power that runs swaymsg for a display without a power
\* control method.
set_power_fallback(w, i, v, readback, swaymsg, fail) ==
    IF w.displays[i].dpms_control = Some(SysFS) THEN write_dpms(w, i, v, readback, fail)
    ELSE Hw(w, i, swaymsg, v, i \notin fail)

\* The match on dpms_control of turn_on and turn_off.
set_power(w, i, v, readback, swaymsg, fail) ==
    IF w.displays[i].dpms_control = Some(SysFS) THEN write_dpms(w, i, v, readback, fail)
    ELSE IF w.displays[i].dpms_control = Some(SwayDPMS)
    THEN Hw(w, i, swaymsg, v, i \notin fail)
    ELSE w

\* A variant of turn_on that also puts the display at the default level.
turn_on_reset(w, i, fail) ==
    set_power(Call(set_brightness_level(w, i, DEFAULT_LEVEL, fail), i, "turn_on"),
              i, 0, "0\n", "swaymsg_power_on", fail)

turn_on(w, i, fail) ==
    set_power(Call(w, i, "turn_on"), i, 0, "0\n", "swaymsg_power_on", fail)

turn_off(w, i, fail) ==
    set_power(Call(w, i, "turn_off"), i, 4, "4\n", "swaymsg_power_off", fail)

(***************************************************************************)
(* main.rs: the dispatch functions.  Each `for d in displays` loop is a    *)
(* recursion over the index; a panic ends it.                              *)
(***************************************************************************)
turn_on_display(name, w, fail) ==
    LET RECURSIVE loop(_, _)
        loop(x, i) ==
            IF i > Len(x.displays) \/ x.panic THEN x
            ELSE loop(IF x.displays[i].name = name THEN turn_on(x, i, fail) ELSE x, i + 1)
    IN loop(w, 1)

turn_on_all_displays(w, fail) ==
    LET RECURSIVE loop(_, _)
        loop(x, i) ==
            IF i > Len(x.displays) \/ x.panic THEN x
            ELSE loop(turn_on(x, i, fail), i + 1)
    IN loop(w, 1)

\* A variant of turn_off_display that stops after the first match.
turn_off_display_first(name, w, fail) ==
    LET RECURSIVE loop(_, _)
        loop(x, i) ==
            IF i > Len(x.displays) \/ x.panic THEN x
            ELSE IF x.displays[i].name = name THEN turn_off(x, i, fail)
            ELSE loop(x, i + 1)
    IN loop(w, 1)

turn_off_display(name, w, fail) ==
    LET RECURSIVE loop(_, _)
        loop(x, i) ==
            IF i > Len(x.displays) \/ x.panic THEN x
            ELSE loop(IF x.displays[i].name = name THEN turn_off(x, i, fail) ELSE x, i + 1)
    IN loop(w, 1)

\* A variant of turn_off_all_displays that propagates the first error (`?`).
turn_off_all_displays_abort(w, fail) ==
    LET RECURSIVE loop(_, _)
        loop(x, i) ==
            IF i > Len(x.displays) \/ x.panic THEN x
            ELSE IF Len(x.hw) > 0 /\ ~x.hw[Len(x.hw)].ok THEN x
            ELSE loop(turn_off(x, i, fail), i + 1)
    IN loop(w, 1)

turn_off_all_displays(w, fail) ==
    LET RECURSIVE loop(_, _)
        loop(x, i) ==
            IF i > Len(x.displays) \/ x.panic THEN x
            ELSE loop(turn_off(x, i, fail), i + 1)
    IN loop(w, 1)

\* The match on d.is_on() of toggle_display, r being its result:
\* Ok(true) turns the display off, Ok(false) on, Err(_) does nothing.
toggle_match(r, i, fail) ==
    IF r.ok /\ r.v THEN turn_off(r.w, i, fail)
    ELSE IF r.ok THEN turn_on(r.w, i, fail)
    ELSE r.w

toggle_display(name, w, fail) ==
    LET RECURSIVE loop(_, _)
        loop(x, i) ==
            IF i > Len(x.displays) \/ x.panic THEN x
            ELSE loop(IF x.displays[i].name = name
                      THEN toggle_match(is_on(x, i, fail), i, fail)
                      ELSE x, i + 1)
    IN loop(w, 1)

\* A variant of the match of toggle_all_displays that falls back to turning
\* every display on when the first display cannot be read.
toggle_all_match_fallback(r, fail) ==
    IF r.ok /\ r.v THEN turn_off_all_displays(r.w, fail)
    ELSE turn_on_all_displays(r.w, fail)

\* The match on displays[0].is_on() of toggle_all_displays.
toggle_all_match(r, fail) ==
    IF r.ok /\ r.v THEN turn_off_all_displays(r.w, fail)
    ELSE IF r.ok THEN turn_on_all_displays(r.w, fail)
    ELSE r.w

\* A variant of toggle_all_displays that toggles every display by its own
\* power state.
toggle_all_displays_each(w, fail) ==
    LET RECURSIVE loop(_, _)
        loop(x, i) ==
            IF i > Len(x.displays) \/ x.panic THEN x
            ELSE loop(toggle_match(is_on(x, i, fail), i, fail), i + 1)
    IN loop(w, 1)

toggle_all_displays(w, fail) ==
    IF Len(w.displays) = 0 THEN w
    ELSE toggle_all_match(is_on(w, 1, fail), fail)

\* A variant of display_brightness_up with a group guard over the named
\* displays.
display_brightness_up_group(name, w, fail) ==
    LET RECURSIVE loop(_, _)
        loop(x, i) ==
            IF i > Len(x.displays) \/ x.panic THEN x
            ELSE loop(IF x.displays[i].name = name THEN brightness_up(x, i, fail) ELSE x,
                      i + 1)
    IN IF \E i \in 1..Len(w.displays) :
            /\ w.displays[i].name = name
            /\ ~is_max(get_brightness(w.displays[i].scale))
       THEN loop(w, 1)
       ELSE w

display_brightness_up(name, w, fail) ==
    LET RECURSIVE loop(_, _)
        loop(x, i) ==
            IF i > Len(x.displays) \/ x.panic THEN x
            ELSE loop(IF x.displays[i].name = name
                         /\ ~is_max(get_brightness(x.displays[i].scale))
                      THEN brightness_up(x, i, fail)
                      ELSE x, i + 1)
    IN loop(w, 1)

display_brightness_down(name, w, fail) ==
    LET RECURSIVE loop(_, _)
        loop(x, i) ==
            IF i > Len(x.displays) \/ x.panic THEN x
            ELSE loop(IF x.displays[i].name = name
                         /\ ~is_min(get_brightness(x.displays[i].scale))
                      THEN brightness_down(x, i, fail)
                      ELSE x, i + 1)
    IN loop(w, 1)

\* A variant of all_brightness_up with the guard of the named dispatch:
\* each display is skipped when it is itself at Max.
all_brightness_up_each(w, fail) ==
    LET RECURSIVE loop(_, _)
        loop(x, i) ==
            IF i > Len(x.displays) \/ x.panic THEN x
            ELSE loop(IF ~is_max(get_brightness(x.displays[i].scale))
                      THEN brightness_up(x, i, fail)
                      ELSE x, i + 1)
    IN loop(w, 1)

all_brightness_up(w, fail) ==
    LET RECURSIVE loop(_, _)
        loop(x, i) ==
            IF i > Len(x.displays) \/ x.panic THEN x
            ELSE loop(brightness_up(x, i, fail), i + 1)
    IN IF \E i \in 1..Len(w.displays) : ~is_max(get_brightness(w.displays[i].scale))
       THEN loop(w, 1)
       ELSE w

all_brightness_down(w, fail) ==
    LET RECURSIVE loop(_, _)
        loop(x, i) ==
            IF i > Len(x.displays) \/ x.panic THEN x
            ELSE loop(brightness_down(x, i, fail), i + 1)
    IN IF \E i \in 1..Len(w.displays) : ~is_min(get_brightness(w.displays[i].scale))
       THEN loop(w, 1)
       ELSE w

(***************************************************************************)
(* lib.rs: BacklightCommand and TargetDisplay (decoded values).            *)
(***************************************************************************)
All == [all |-> TRUE, name |-> ""]
TargetDisplay(name) == [all |-> FALSE, name |-> name]
BacklightCommand(verb, target) == [verb |-> verb, target |-> target]
SwaySock(path) == [verb |-> "SwaySock", target |-> TargetDisplay(path)]

\* A variant of execute_command that runs Max, Min and Default as Off.
execute_command_as_off(cmd, w, fail) ==
    IF cmd.verb \in {"Max", "Min", "Default"}
    THEN IF cmd.target.all THEN turn_off_all_displays(w, fail)
         ELSE turn_off_display(cmd.target.name, w, fail)
    ELSE [w EXCEPT !.panic = TRUE]

\* todo!() panics.
execute_command(cmd, w, fail) ==
    IF cmd.verb = "SwaySock" THEN [w EXCEPT !.swaysock = cmd.target.name]
    ELSE IF cmd.verb = "On"
         THEN IF cmd.target.all THEN turn_on_all_displays(w, fail)
              ELSE turn_on_display(cmd.target.name, w, fail)
    ELSE IF cmd.verb = "Off"
         THEN IF cmd.target.all THEN turn_off_all_displays(w, fail)
              ELSE turn_off_display(cmd.target.name, w, fail)
    ELSE IF cmd.verb = "Up"
         THEN IF cmd.target.all THEN all_brightness_up(w, fail)
              ELSE display_brightness_up(cmd.target.name, w, fail)
    ELSE IF cmd.verb = "Down"
         THEN IF cmd.target.all THEN all_brightness_down(w, fail)
              ELSE display_brightness_down(cmd.target.name, w, fail)
    ELSE IF cmd.verb = "Toggle"
         THEN IF cmd.target.all THEN toggle_all_displays(w, fail)
              ELSE toggle_display(cmd.target.name, w, fail)
    ELSE [w EXCEPT !.panic = TRUE]

(***************************************************************************)
(* config.rs: a display table of the configuration document and the        *)
(* Display built from it.  gamma is the whole number of the TOML float     *)
(* (1 for 1.0, 2 for 2.0).                                                 *)
(***************************************************************************)
Table(name, brightness_control, onoff_control, gamma, min, max, ref_max, ref_min) ==
    [name |-> name, brightness_control |-> brightness_control,
     onoff_control |-> onoff_control, gamma |-> gamma,
     min |-> min, max |-> max, ref_max |-> ref_max, ref_min |-> ref_min]

\* The builder after the setter calls of toml_to_display, in their order:
\* gamma 1.0 selects Linear with the defaults max 100 and min 0, any other
\* gamma selects Exp2; then min, max, ref_max, ref_min when present.
builder_gamma(b, t) ==
    IF t.gamma = None THEN b
    ELSE IF t.gamma[1] = 1
         THEN [b EXCEPT !.kind = Some(Linear), !.max_value = Some(100),
                        !.min_value = Some(0)]
         ELSE [b EXCEPT !.kind = Some(Exp2(F32FromInt(t.gamma[1])))]
builder_min(b, t) == IF t.min = None THEN b ELSE [b EXCEPT !.min_value = t.min]
builder_max(b, t) == IF t.max = None THEN b ELSE [b EXCEPT !.max_value = t.max]
builder_ref_max(b, t) == IF t.ref_max = None THEN b ELSE [b EXCEPT !.ref_max = t.ref_max]
builder_ref_min(b, t) == IF t.ref_min = None THEN b ELSE [b EXCEPT !.ref_min = t.ref_min]

scalebuilder(t) ==
    builder_ref_min(builder_ref_max(builder_max(builder_min(
        builder_gamma(ScaleBuilder_new, t), t), t), t), t)

\* Result<Display, Error>
\* toml_to_display once the scale is made (r is the result of make).
display_from(t, r) ==
    IF ~r.ok THEN [ok |-> FALSE, err |-> r.err]
    ELSE [ok |-> TRUE,
          display |-> [dpms_control |-> t.onoff_control,
                       brightness_control |-> t.brightness_control,
                       scale |-> r.scale,
                       name |-> t.name]]

toml_to_display(t) == display_from(t, make(scalebuilder(t)))

(***************************************************************************)
(* The configurations the daemon is started with.                          *)
(*   ConfigA: two displays named "a" (one saturating at Max one level      *)
(*            before the other) and a display "b" with a narrow device     *)
(*            range and no brightness control.                             *)
(*   ConfigB: the lead display has no readable power node; an Exp2         *)
(*            display; every display is at Min from level 2 on.            *)
(*   ConfigC: a display whose reference range is a sliver of its device    *)
(*            range, so that it saturates at no i8 level, and a plain one. *)
(***************************************************************************)
ConfigA ==
    << Table("a", Some(DDCUtil), Some(SysFS), None, None, Some(100), Some(120), None),
       Table("a", Some(SysFS), Some(SysFS), None, None, Some(100), None, None),
       Table("b", None, Some(SwayDPMS), None, Some(80), Some(100), None, Some(0)) >>

ConfigB ==
    << Table("a", Some(SysFS), Some(SwayDPMS), None, Some(80), Some(100), None, Some(0)),
       Table("b", Some(SwayDPMS), None, Some(2), Some(128), Some(512), None, Some(1)),
       Table("b", Some(DDCUtil), Some(SysFS), Some(1), Some(90), None, None, Some(0)) >>

ConfigC ==
    << Table("a", Some(SysFS), None, None, None, Some(255), Some(50), Some(49)),
       Table("b", Some(SysFS), Some(SwayDPMS), None, None, Some(100), None, None) >>

\* The starts of the daemon: the configuration document (its display tables
\* and default_level) and whether the build checks integer overflow.  The
\* two builds differ only where a level leaves the i8 range, which the
\* levels of ConfigC do.
Document(display, level) ==
    [display |-> display, default_level |-> level, steps |-> None]
\* The document with a `steps` key.
DocumentSteps(doc, steps) == [doc EXCEPT !.steps = Some(steps)]
Starts ==
    { [doc |-> Document(ConfigA, Some(1)), overflow_checks |-> FALSE],
      [doc |-> Document(ConfigA, Some(2)), overflow_checks |-> FALSE],
      [doc |-> Document(ConfigB, Some(1)), overflow_checks |-> FALSE],
      [doc |-> Document(ConfigB, Some(2)), overflow_checks |-> TRUE],
      [doc |-> Document(ConfigC, Some(0 - 128)), overflow_checks |-> FALSE],
      [doc |-> Document(ConfigC, Some(0 - 128)), overflow_checks |-> TRUE],
      [doc |-> Document(ConfigC, Some(127)), overflow_checks |-> FALSE],
      [doc |-> Document(ConfigC, Some(127)), overflow_checks |-> TRUE],
      [doc |-> Document(ConfigA, None), overflow_checks |-> FALSE],
      [doc |-> Document(ConfigB, Some(200)), overflow_checks |-> FALSE] }

\* parse_config_document: the displays in document order; the integer of
\* default_level cast to i8 (`v as i8` keeps its low 8 bits), 4 without the
\* key; the integer of steps as an f32, 9.0 without the key.
parse_config_document(doc) ==
    [displays |-> [i \in 1..Len(doc.display) |-> toml_to_display(doc.display[i]).display],
     default_level |-> IF doc.default_level = None THEN 4
                       ELSE i8_wrap(doc.default_level[1]),
     steps_in_reference_range |-> F32FromInt(unwrap_or(doc.steps, 9))]

Names == {"a", "b", "c"}
Targets == {All} \cup {TargetDisplay(n) : n \in Names}
Paths == {"/run/user/1000/sway-ipc.sock"}

\* How many commands a run of the model accepts.
MaxCmds == 2

(***************************************************************************)
(* lib.rs, mod parsing: the decoding of a command line.  A byte is a       *)
(* one-character string and a line a sequence of bytes.  A parser takes    *)
(* the input and answers an IResult: [ok |-> FALSE], or ok with the        *)
(* unconsumed rest and the output.                                         *)
(***************************************************************************)
UpperCase ==
    << "A", "B", "C", "D", "E", "F", "G", "H", "I", "J", "K", "L", "M", "N", "O", "P", "Q", "R", "S", "T", "U", "V", "W", "X", "Y", "Z" >>
LowerCase ==
    << "a", "b", "c", "d", "e", "f", "g", "h", "i", "j", "k", "l", "m", "n", "o", "p", "q", "r", "s", "t", "u", "v", "w", "x", "y", "z" >>

\* nom's comparison of tag_no_case folds the ASCII letters A..Z.
lowercase_byte(c) ==
    IF \E i \in 1..26 : UpperCase[i] = c
    THEN LowerCase[CHOOSE i \in 1..26 : UpperCase[i] = c]
    ELSE c

is_space(c) == c = " "

Error == [ok |-> FALSE]
Ok(rest, out) == [ok |-> TRUE, rest |-> rest, out |-> out]

\* The input split after its first n bytes.
take(input, n) == Ok(SubSeq(input, n + 1, Len(input)), SubSeq(input, 1, n))

\* tag(t): a variant of tag_no_case that compares the bytes as they are.
tag(t, input) ==
    IF Len(input) >= Len(t) /\ SubSeq(input, 1, Len(t)) = t
    THEN take(input, Len(t))
    ELSE Error

\* tag_no_case(t): the input begins with the bytes of t, in any case.
tag_no_case(t, input) ==
    IF /\ Len(input) >= Len(t)
       /\ \A i \in 1..Len(t) : lowercase_byte(input[i]) = lowercase_byte(t[i])
    THEN take(input, Len(t))
    ELSE Error

\* The number of bytes before the first one in `stops` (all of them when
\* there is none): what take_while and take_till consume.
split_at_position_complete(input, stops) ==
    IF stops = {} THEN Len(input)
    ELSE (CHOOSE i \in stops : \A j \in stops : i <= j) - 1

\* take_while(is_space): zero or more spaces.
space0(input) ==
    take(input, split_at_position_complete(input,
                    {i \in 1..Len(input) : ~is_space(input[i])}))

\* A variant of not_space that takes the whole input.
not_space_greedy(input) == take(input, Len(input))

\* take_till(is_space): zero or more bytes other than a space.
not_space(input) ==
    take(input, split_at_position_complete(input,
                    {i \in 1..Len(input) : is_space(input[i])}))

\* rest: all of the input.
rest(input) == take(input, Len(input))

\* alt((not_space, rest))
token(input) == IF not_space(input).ok THEN not_space(input) ELSE rest(input)

\* map(tag_no_case("all"), |_| TargetDisplay::All)
all_displays(input) ==
    LET r == tag_no_case(<< "a", "l", "l" >>, input)
    IN IF r.ok THEN Ok(r.rest, All) ELSE Error

\* map(token, |t| TargetDisplay::Display(t.to_os_string()))
specific_display(input) ==
    LET r == token(input)
    IN IF r.ok THEN Ok(r.rest, TargetDisplay(r.out)) ELSE Error

\* alt((all_displays, specific_display))
display(input) ==
    IF all_displays(input).ok THEN all_displays(input) ELSE specific_display(input)

\* A variant of path that stops at the first space.
path_token(input) == token(input)

\* PathBuf::from(input.to_os_string()): all of the input, nothing left.
path(input) == Ok(<< >>, input)

\* The nine command parsers, in the order parse_command tries them: each
\* is separated_pair(tag_no_case(tag), space0, argument) mapped to the
\* variant `verb`, the argument being a path for swaysock and a display for
\* the others.
Commands ==
    << [tag |-> << "s", "w", "a", "y", "s", "o", "c", "k" >>, verb |-> "SwaySock"],
       [tag |-> << "t", "o", "g", "g", "l", "e" >>, verb |-> "Toggle"],
       [tag |-> << "d", "o", "w", "n" >>, verb |-> "Down"],
       [tag |-> << "u", "p" >>, verb |-> "Up"],
       [tag |-> << "o", "f", "f" >>, verb |-> "Off"],
       [tag |-> << "o", "n" >>, verb |-> "On"],
       [tag |-> << "m", "a", "x" >>, verb |-> "Max"],
       [tag |-> << "m", "i", "n" >>, verb |-> "Min"],
       [tag |-> << "d", "e", "f", "a", "u", "l", "t" >>, verb |-> "Default"] >>

\* separated_pair(tag_no_case(c.tag), space0, argument) and the map to the
\* variant: the argument parser runs on what the tag and the spaces left.
command(c, input) ==
    LET t == tag_no_case(c.tag, input)
        r == IF c.verb = "SwaySock" THEN path(space0(t.rest).rest)
             ELSE display(space0(t.rest).rest)
    IN IF ~t.ok \/ ~r.ok THEN Error
       ELSE Ok(r.rest, IF c.verb = "SwaySock" THEN SwaySock(r.out)
                       ELSE BacklightCommand(c.verb, r.out))

\* alt over the nine commands: the first that succeeds; what it left
\* unconsumed is dropped.  Result<BacklightCommand, ()>
parse_command(input) ==
    LET hits == {i \in 1..Len(Commands) : command(Commands[i], input).ok}
    IN IF hits = {} THEN [ok |-> FALSE, err |-> "()"]
       ELSE [ok |-> TRUE,
             cmd |-> command(Commands[CHOOSE i \in hits : \A j \in hits : i <= j],
                             input).out]

\* impl TryFrom<&[u8]> for BacklightCommand: map_err(|_| Error::BadParse)
try_from(bytes) ==
    IF parse_command(bytes).ok THEN parse_command(bytes)
    ELSE [ok |-> FALSE, err |-> "BadParse"]

(***************************************************************************)
(* State.                                                                  *)
(*   pc               where main is: "start" (config read, socket bound,   *)
(*                    default level not yet set), "accept" (in run, at     *)
(*                    listener.accept), "panicked" (the process is gone)   *)
(*   overflow_checks  whether the build checks integer overflow            *)
(*   default_level    config.default_level                                 *)
(*   displays, dpms, swaysock, calls, hw: as in the world above; calls     *)
(*                    and hw hold what the last command did                *)
(*   lastCmd          the last command dispatched                          *)
(*   pre              the levels, power nodes and SWAYSOCK before it       *)
(*   ncmds            the number of commands accepted so far               *)
(*   seq              the current run of `down` commands followed by `up`  *)
(*                    commands at one target: how many of each so far, the *)
(*                    brightness of every display before the first one,    *)
(*                    and the displays that received every call of the run *)
(*   probe, cprobe    a call of a scale operation / of ClampedValue::new   *)
(*                    made on its own (outside the daemon)                 *)
(*   bprobe, fprobe   a call of ScaleBuilder::make / of                    *)
(*                    parse_config_document made on its own                *)
(*   pprobe           a decoding of a command line made on its own         *)
(***************************************************************************)
VARIABLES pc, overflow_checks, default_level, displays, dpms, swaysock,
          calls, hw, lastCmd, pre, ncmds, seq, probe, cprobe, bprobe, fprobe,
          pprobe

vars == << pc, overflow_checks, default_level, displays, dpms, swaysock,
           calls, hw, lastCmd, pre, ncmds, seq, probe, cprobe, bprobe, fprobe,
           pprobe >>

daemon_vars == << pc, overflow_checks, default_level, displays, dpms, swaysock,
                  calls, hw, lastCmd, pre, ncmds, seq >>

N == Len(displays)
Levels(ds) == [i \in 1..Len(ds) |-> ds[i].scale.level]
Brightness(ds) == [i \in 1..Len(ds) |-> get_brightness(ds[i].scale)]

NoCmd == BacklightCommand("None", All)
NoSeq == [target |-> All, downs |-> 0, ups |-> 0, orig |-> << >>, full |-> {}]

\* A call of a scale operation made on its own: the operation, its
\* argument, the scale before and after, what it returned, whether it
\* panicked.  op = "none": no call made yet.
ProbeOf(scale) ==
    [op |-> "none", arg |-> 0, before |-> scale, scale |-> scale, ret |-> Min(0),
     panic |-> FALSE]
NoProbe == ProbeOf(make(scalebuilder(ConfigA[2])).scale)

\* A call of ClampedValue::new made on its own: its arguments, the result
\* and what value() returns on it.
CProbeOf(v, floor, ceiling) ==
    [v |-> v, floor |-> floor, ceiling |-> ceiling, called |-> FALSE,
     ret |-> Min(0), value |-> 0]
NoCProbe == CProbeOf(0, 0, 0)

\* A call of ScaleBuilder::make made on its own: the builder and the
\* Result returned.
BProbeOf(builder) ==
    [builder |-> builder, made |-> FALSE, ret |-> [ok |-> FALSE, err |-> "none"]]
NoBProbe == BProbeOf(ScaleBuilder_new)

\* A call of parse_config_document made on its own: the document and the
\* Config returned.
FProbeOf(doc) == [doc |-> doc, parsed |-> FALSE, config |-> None]
NoFProbe == FProbeOf(Document(<< >>, None))

\* A decoding of a command line (BacklightCommand::try_from) made on its
\* own: the bytes of the line and the Result returned.  The line is made of
\* a head, `gap` spaces and a tail.
Spaces(n) == [i \in 1..n |-> " "]
PProbeOf(head, gap, tail) ==
    [head |-> head, gap |-> gap, tail |-> tail,
     input |-> head \o Spaces(gap) \o tail,
     parsed |-> FALSE, ret |-> [ok |-> FALSE, err |-> "none"]]
NoPProbe == PProbeOf(<< >>, 0, << >>)

\* No call is made on its own, but for the configuration that main parsed.
NoProbes ==
    /\ probe = NoProbe
    /\ cprobe = NoCProbe
    /\ bprobe = NoBProbe
    /\ pprobe = NoPProbe

\* The hardware of at most one display fails while a command is dispatched.
Fails == {{}} \cup {{i} : i \in 1..N}

World ==
    [displays |-> displays, dpms |-> dpms, swaysock |-> swaysock,
     calls |-> << >>, hw |-> << >>, panic |-> FALSE,
     overflow_checks |-> overflow_checks]

Called(w) == {w.calls[j].d : j \in 1..Len(w.calls)}

\* The run of downs then ups after command cmd left the world as w.
NextSeq(cmd, w) ==
    IF w.panic THEN NoSeq
    ELSE IF cmd.verb = "Down"
         THEN IF seq.downs > 0 /\ seq.ups = 0 /\ seq.target = cmd.target
              THEN [seq EXCEPT !.downs = @ + 1, !.full = @ \cap Called(w)]
              ELSE [target |-> cmd.target, downs |-> 1, ups |-> 0,
                    orig |-> Brightness(displays), full |-> Called(w)]
    ELSE IF cmd.verb = "Up" /\ seq.downs > seq.ups /\ seq.target = cmd.target
         THEN [seq EXCEPT !.ups = @ + 1, !.full = @ \cap Called(w)]
    ELSE NoSeq

\* The daemon's state once the configuration is parsed.
InitFrom(start, config) ==
    /\ overflow_checks = start.overflow_checks
    /\ displays = config.displays
    /\ default_level = config.default_level
    /\ fprobe = [FProbeOf(start.doc) EXCEPT !.parsed = TRUE, !.config = Some(config)]
    /\ dpms \in [1..Len(config.displays) -> {"0\n", "4\n", ""}]
    /\ \A i \in 1..Len(config.displays) :
         dpms[i] = "" <=> config.displays[i].dpms_control # Some(SysFS)

Init ==
    /\ pc = "start"
    /\ \E start \in Starts : InitFrom(start, parse_config_document(start.doc))
    /\ swaysock = ""
    /\ calls = << >>
    /\ hw = << >>
    /\ lastCmd = NoCmd
    /\ pre = [levels |-> Levels(displays), dpms |-> dpms, swaysock |-> swaysock]
    /\ ncmds = 0
    /\ seq = NoSeq
    /\ NoProbes

\* The world w left by a handler becomes the daemon's state.
Commit(w) ==
    /\ displays' = w.displays
    /\ dpms' = w.dpms
    /\ swaysock' = w.swaysock
    /\ calls' = w.calls
    /\ hw' = w.hw
    /\ pc' = IF w.panic THEN "panicked" ELSE "accept"
    /\ pre' = [levels |-> Levels(displays), dpms |-> dpms, swaysock |-> swaysock]

\* A variant of set_default_levels that gives up at the first display whose
\* brightness write fails.
set_default_levels_abort(w, level, fail) ==
    LET RECURSIVE loop(_, _)
        loop(x, i) ==
            IF i > Len(x.displays) \/ (\E k \in 1..Len(x.hw) : ~x.hw[k].ok) THEN x
            ELSE loop(set_brightness_level(x, i, level, fail), i + 1)
    IN loop(w, 1)

\* main, lines 253-258: the default level is set on every display, the
\* result of each call dropped; then run is entered.
set_default_levels(w, level, fail) ==
    LET RECURSIVE loop(_, _)
        loop(x, i) ==
            IF i > Len(x.displays) THEN x
            ELSE loop(set_brightness_level(x, i, level, fail), i + 1)
    IN loop(w, 1)

Startup ==
    /\ pc = "start"
    /\ \E fail \in Fails : Commit(set_default_levels(World, default_level, fail))
    /\ UNCHANGED << overflow_checks, default_level, lastCmd, ncmds, seq, probe,
                    cprobe, bprobe, fprobe, pprobe >>

\* One turn of the loop of run for a command that decodes to cmd: accept,
\* read, decode, execute_command.  A panic unwinds out of main.
Executed(cmd, w) ==
    /\ Commit(w)
    /\ seq' = NextSeq(cmd, w)
    /\ lastCmd' = cmd
    /\ ncmds' = ncmds + 1
    /\ UNCHANGED << overflow_checks, default_level, probe, cprobe, bprobe, fprobe,
                    pprobe >>

Dispatch(cmd, fail) == Executed(cmd, execute_command(cmd, World, fail))

\* A variant of the Err arm of run that returns the error (`?`).
run_err_exit(w) == [w EXCEPT !.panic = TRUE]

\* The Err arm of the match in run: the error is printed.
run_err(w) == w

\* What lastCmd holds after a line that did not decode.
BadParse == BacklightCommand("BadParse", All)

\* run is at listener.accept and the model takes another command.
Accepting == pc = "accept" /\ ncmds < MaxCmds

CmdSwaySock ==
    /\ Accepting
    /\ \E p \in Paths : Dispatch(SwaySock(p), {})

CmdOn ==
    /\ Accepting
    /\ \E t \in Targets, fail \in Fails : Dispatch(BacklightCommand("On", t), fail)

CmdOff ==
    /\ Accepting
    /\ \E t \in Targets, fail \in Fails : Dispatch(BacklightCommand("Off", t), fail)

CmdUp ==
    /\ Accepting
    /\ \E t \in Targets, fail \in Fails : Dispatch(BacklightCommand("Up", t), fail)

CmdDown ==
    /\ Accepting
    /\ \E t \in Targets, fail \in Fails : Dispatch(BacklightCommand("Down", t), fail)

CmdToggle ==
    /\ Accepting
    /\ \E t \in Targets, fail \in Fails : Dispatch(BacklightCommand("Toggle", t), fail)

\* Max, Min and Default decode but are not implemented.
CmdUnimplemented ==
    /\ Accepting
    /\ \E v \in {"Max", "Min", "Default"}, t \in Targets :
         Dispatch(BacklightCommand(v, t), {})

\* A client sends a line that does not decode.
CmdBadLine ==
    /\ Accepting
    /\ \E line \in {<< >>, << "x" >>, << " ", "o", "n" >>, << "s", "w", "a", "y" >>,
                     << "d", "i", "m", " ", "a", "l", "l" >>} :
         /\ ~try_from(line).ok
         /\ Executed(BadParse, run_err(World))

Next ==
    \/ Startup
    \/ CmdSwaySock
    \/ CmdOn
    \/ CmdOff
    \/ CmdUp
    \/ CmdDown
    \/ CmdToggle
    \/ CmdUnimplemented
    \/ CmdBadLine

Spec == Init /\ [][Next]_vars

(***************************************************************************)
(* Runs of brightness commands only: `down` and `up` commands at the       *)
(* existing targets, with working hardware, MaxRun of them.                *)
(***************************************************************************)
MaxRun == 4

RunTargets == {All, TargetDisplay("a"), TargetDisplay("b")}

RunDown ==
    /\ pc = "accept" /\ ncmds < MaxRun
    /\ \E t \in RunTargets : Dispatch(BacklightCommand("Down", t), {})

RunUp ==
    /\ pc = "accept" /\ ncmds < MaxRun
    /\ \E t \in RunTargets : Dispatch(BacklightCommand("Up", t), {})

NextRun ==
    \/ Startup
    \/ RunDown
    \/ RunUp

SpecRun == Init /\ [][NextRun]_vars

(***************************************************************************)
(* The scale on its own: a scale built from one of the display tables, at  *)
(* any i8 level, in either build; one operation is called on it.           *)
(***************************************************************************)
I8 == (0 - 128)..127

\* The levels passed to set_level and value_for.
LevelArgs == {0 - 128, 0 - 1, 0, DEFAULT_LEVEL, STEPS_IN_REFERENCE_RANGE, 127}

Tables(config) == {config[i] : i \in 1..Len(config)}

\* An Exp2 display without `min`: the reference minimum is 0, its log2 is
\* -inf and the step factor infinite, so that levels give 0, +inf or NaN.
\* And an Exp2 display whose device and reference ranges are both [1, 512].
ConfigD ==
    << Table("d", Some(SysFS), None, Some(2), None, Some(1024), None, None),
       Table("e", Some(SysFS), None, Some(2), Some(1), Some(512), None, None) >>

Scales == {toml_to_display(t).display.scale :
             t \in Tables(ConfigA) \cup Tables(ConfigB) \cup Tables(ConfigC)
                    \cup Tables(ConfigD)}

\* The daemon is not running.
NoDaemon ==
    /\ pc = "none"
    /\ default_level = DEFAULT_LEVEL
    /\ displays = << >>
    /\ dpms = << >>
    /\ swaysock = ""
    /\ calls = << >>
    /\ hw = << >>
    /\ lastCmd = NoCmd
    /\ pre = [levels |-> << >>, dpms |-> << >>, swaysock |-> ""]
    /\ ncmds = 0
    /\ seq = NoSeq

InitScale ==
    /\ NoDaemon
    /\ overflow_checks \in BOOLEAN
    /\ \E scale \in Scales, level \in I8 : probe = ProbeOf([scale EXCEPT !.level = level])
    /\ cprobe = NoCProbe
    /\ bprobe = NoBProbe
    /\ fprobe = NoFProbe
    /\ pprobe = NoPProbe

\* r is the result of the operation op called with arg on probe.scale.
Probed(op, arg, r) ==
    /\ probe' = [op |-> op, arg |-> arg, before |-> probe.scale, scale |-> r.self,
                 ret |-> r.ret, panic |-> r.panic]
    /\ UNCHANGED << daemon_vars, cprobe, bprobe, fprobe, pprobe >>

ScaleUp == probe.op = "none" /\ Probed("up", 0, up(probe.scale, overflow_checks))

ScaleDown == probe.op = "none" /\ Probed("down", 0, down(probe.scale, overflow_checks))

ScaleSetLevel ==
    /\ probe.op = "none"
    /\ \E v \in LevelArgs : Probed("set_level", v, set_level(probe.scale, v))

ScaleGetBrightness ==
    /\ probe.op = "none"
    /\ Probed("get_brightness", 0,
              [self |-> probe.scale, ret |-> get_brightness(probe.scale), panic |-> FALSE])

ScaleValueFor ==
    /\ probe.op = "none"
    /\ \E f \in LevelArgs :
         Probed("value_for", f,
                [self |-> probe.scale, ret |-> value_for(probe.scale, f), panic |-> FALSE])

NextScale ==
    \/ ScaleUp
    \/ ScaleDown
    \/ ScaleSetLevel
    \/ ScaleGetBrightness
    \/ ScaleValueFor

SpecScale == InitScale /\ [][NextScale]_vars

(***************************************************************************)
(* ClampedValue on its own: new is called on a value and two bounds drawn  *)
(* from 0..ClampMax, then value() on the result.                           *)
(***************************************************************************)
ClampMax == 5

InitClamp ==
    /\ NoDaemon
    /\ overflow_checks = FALSE
    /\ probe = NoProbe
    /\ \E v \in 0..ClampMax, floor \in 0..ClampMax, ceiling \in 0..ClampMax :
         cprobe = CProbeOf(v, floor, ceiling)
    /\ bprobe = NoBProbe
    /\ fprobe = NoFProbe
    /\ pprobe = NoPProbe

\* r is the ClampedValue that new returned.
Clamped(r) ==
    /\ cprobe' = [cprobe EXCEPT !.called = TRUE, !.ret = r, !.value = value(r)]
    /\ UNCHANGED << daemon_vars, probe, bprobe, fprobe, pprobe >>

ClampNew ==
    /\ ~cprobe.called
    /\ Clamped(ClampedValue_new(cprobe.v, cprobe.floor, cprobe.ceiling))

NextClamp == ClampNew

SpecClamp == InitClamp /\ [][NextClamp]_vars

(***************************************************************************)
(* What the last dispatch did, read off the state.                         *)
(***************************************************************************)
\* The last dispatch returned to the accept loop.
Returned == pc = "accept" /\ lastCmd # NoCmd

\* The brightness of display i before the last dispatch.
PreBrightness(i) == get_brightness([displays[i].scale EXCEPT !.level = pre.levels[i]])

\* The world before the last dispatch.
PreWorld ==
    [displays |-> [i \in 1..N |-> [displays[i] EXCEPT !.scale.level = pre.levels[i]]],
     dpms |-> pre.dpms, swaysock |-> pre.swaysock, calls |-> << >>, hw |-> << >>,
     panic |-> FALSE, overflow_checks |-> overflow_checks]

\* The calls that display i received, in order; how many of them were op.
CallsOn(cs, i) == SelectSeq(cs, LAMBDA c : c.d = i)
CountOf(cs, i, op) == Cardinality({j \in 1..Len(cs) : cs[j] = [d |-> i, op |-> op]})
HwOn(i) == SelectSeq(hw, LAMBDA h : h.d = i)

\* The displays on which a hardware operation failed.
Failed == {hw[j].d : j \in {k \in 1..Len(hw) : ~hw[k].ok}}

Named(n) == {i \in 1..N : displays[i].name = n}

Untouched(i) ==
    /\ CallsOn(calls, i) = << >>
    /\ HwOn(i) = << >>
    /\ displays[i].scale.level = pre.levels[i]
    /\ dpms[i] = pre.dpms[i]

\* The up or down call of the last command, and the bound that guards it.
StepCall == IF lastCmd.verb = "Up" THEN "brightness_up" ELSE "brightness_down"
AtBound(i) ==
    IF lastCmd.verb = "Up" THEN is_max(PreBrightness(i)) ELSE is_min(PreBrightness(i))

(***************************************************************************)
(* Properties.                                                             *)
(***************************************************************************)

\* C1: after an `up all` (resp. `down all`) dispatch that returned: if some
\* display was not at Max (resp. Min) before it, every display received
\* exactly one brightness_up (resp. brightness_down) call and no other
\* call, the displays already at the bound included; if every display was
\* at the bound, no call was made, no hardware touched, no level changed.
C1_GroupGuard ==
    (Returned /\ lastCmd.verb \in {"Up", "Down"} /\ lastCmd.target.all) =>
        IF \E i \in 1..N : ~AtBound(i)
        THEN /\ Len(calls) = N
             /\ \A i \in 1..N : CountOf(calls, i, StepCall) = 1
        ELSE /\ calls = << >>
             /\ hw = << >>
             /\ Levels(displays) = pre.levels

\* An `up all` reached a display that was already at Max, because another
\* display was not.
C1_Witness ==
    /\ Returned /\ lastCmd = BacklightCommand("Up", All)
    /\ \E i, j \in 1..N :
         /\ is_max(PreBrightness(i))
         /\ ~is_max(PreBrightness(j))
         /\ CountOf(calls, i, "brightness_up") = 1
         /\ displays[i].scale.level = pre.levels[i] - 1

\* C2: after a named `up` (resp. `down`) dispatch that returned, each
\* display with the target's name was skipped exactly when its own
\* brightness was Max (resp. Min) before the dispatch, whatever the other
\* displays of that name were at; a display that was not skipped received
\* one call, a skipped display kept its level.
C2_NamedGuard ==
    (Returned /\ lastCmd.verb \in {"Up", "Down"} /\ ~lastCmd.target.all) =>
        \A i \in Named(lastCmd.target.name) :
            /\ CallsOn(calls, i) = << >> <=> AtBound(i)
            /\ ~AtBound(i) => CallsOn(calls, i) = << [d |-> i, op |-> StepCall] >>
            /\ AtBound(i) => displays[i].scale.level = pre.levels[i]

\* Of two displays of one name the one at Max was skipped and the later
\* one received its call.
C2_Witness ==
    /\ Returned /\ lastCmd.verb = "Up" /\ ~lastCmd.target.all
    /\ \E i, j \in Named(lastCmd.target.name) :
         /\ i < j
         /\ is_max(PreBrightness(i)) /\ CallsOn(calls, i) = << >>
         /\ ~is_max(PreBrightness(j)) /\ CountOf(calls, j, "brightness_up") = 1

\* C3: `toggle all` reads the power state of the first display and of no
\* other; when that read succeeds and the first display was on, every
\* display receives exactly one turn_off call, and when it was off every
\* display receives exactly one turn_on call, whatever the others read.
C3_ToggleAllDirection ==
    (lastCmd = BacklightCommand("Toggle", All)) =>
        /\ \A j \in 1..Len(calls) : calls[j].op = "is_on" => calls[j].d = 1
        /\ \A j \in 1..Len(hw) : hw[j].op = "read_dpms" => hw[j].d = 1
        /\ (hw # << >> /\ hw[1] = [d |-> 1, op |-> "read_dpms", v |-> 0, ok |-> TRUE]) =>
               LET op == IF pre.dpms[1] = "0\n" THEN "turn_off" ELSE "turn_on"
               IN calls = << [d |-> 1, op |-> "is_on"] >>
                            \o [i \in 1..N |-> [d |-> i, op |-> op]]

\* The first display was on and another was off: all were turned off.
C3_Witness ==
    /\ lastCmd = BacklightCommand("Toggle", All)
    /\ pre.dpms[1] = "0\n"
    /\ \E i \in 2..N : pre.dpms[i] = "4\n" /\ CountOf(calls, i, "turn_off") = 1
    /\ \A i \in 1..N : displays[i].dpms_control = Some(SysFS) => dpms[i] = "4\n"

\* C4: when `toggle all` cannot read the power state of the first display
\* (the read fails, or the display has no readable power control), the one
\* is_on call on the first display is all that happens: no turn_on or
\* turn_off call, no look at another display, no second read, and the
\* power state and level of every display stay as they were.
C4_ToggleAllReadFailure ==
    (/\ lastCmd = BacklightCommand("Toggle", All)
     /\ \/ displays[1].dpms_control # Some(SysFS)
        \/ hw # << >> /\ hw[1] = [d |-> 1, op |-> "read_dpms", v |-> 0, ok |-> FALSE]) =>
        /\ calls = << [d |-> 1, op |-> "is_on"] >>
        /\ Len(hw) <= 1
        /\ dpms = pre.dpms
        /\ Levels(displays) = pre.levels
        /\ pc = "accept"

\* The read of the first display failed while another display was sitting
\* there with a readable power state.
C4_Witness ==
    /\ lastCmd = BacklightCommand("Toggle", All)
    /\ hw = << [d |-> 1, op |-> "read_dpms", v |-> 0, ok |-> FALSE] >>
    /\ \E i \in 2..N : displays[i].dpms_control = Some(SysFS)

\* The calls and the fate of the last dispatch are those of the same
\* dispatch with working hardware, on every display but the failed ones.
SameAsWithoutFailure(w) ==
    /\ \A i \in (1..N) \ Failed : CallsOn(calls, i) = CallsOn(w.calls, i)
    /\ (pc = "panicked") = w.panic

\* C5 as stated: in a dispatch of on/off/toggle/up/down, a hardware
\* operation that fails on one display changes nothing for the others:
\* each receives the calls it receives when the hardware works, and the
\* dispatch ends as it does then.
C5_ErrorIsolation_AsStated ==
    (lastCmd.verb \in {"On", "Off", "Toggle", "Up", "Down"} /\ Failed # {}) =>
        SameAsWithoutFailure(execute_command(lastCmd, PreWorld, {}))

\* C5, amended: the same, except for `toggle all` when the read of the
\* first display fails (then no display receives a call).
C5_ErrorIsolation ==
    (/\ lastCmd.verb \in {"On", "Off", "Toggle", "Up", "Down"}
     /\ Failed # {}
     /\ ~(lastCmd = BacklightCommand("Toggle", All) /\ 1 \in Failed)) =>
        SameAsWithoutFailure(execute_command(lastCmd, PreWorld, {}))

\* An `off all` whose hardware failed on the second display: the first
\* and the third were switched off all the same.
C5_Witness ==
    /\ lastCmd = BacklightCommand("Off", All)
    /\ Failed = {2}
    /\ N = 3
    /\ \A i \in {1, 3} : /\ CountOf(calls, i, "turn_off") = 1
                         /\ \E j \in 1..Len(hw) : hw[j].d = i /\ hw[j].ok

\* The call each display of the target's name receives from the last
\* command when nothing guards it.
VerbCall ==
    CASE lastCmd.verb = "On" -> "turn_on"
      [] lastCmd.verb = "Off" -> "turn_off"
      [] lastCmd.verb = "Toggle" -> "is_on"
      [] OTHER -> StepCall

\* C6: a command at a named target leaves every display of another name
\* untouched (no call, no hardware operation, same level and power state),
\* and so every display when no display has the name; when the dispatch
\* returned, every display of that name received the command's call
\* exactly once (for up and down: unless it was at the bound).
C6_NamedFanOut ==
    (lastCmd.verb \in {"On", "Off", "Toggle", "Up", "Down"} /\ ~lastCmd.target.all) =>
        /\ \A i \in (1..N) \ Named(lastCmd.target.name) : Untouched(i)
        /\ Returned =>
             \A i \in Named(lastCmd.target.name) :
                 \/ CountOf(calls, i, VerbCall) = 1
                 \/ lastCmd.verb \in {"Up", "Down"} /\ AtBound(i) /\ Untouched(i)

\* Two displays share the target's name and both were switched off; a
\* display of another name was left alone.
C6_Witness ==
    /\ lastCmd.verb = "Off" /\ ~lastCmd.target.all
    /\ Cardinality(Named(lastCmd.target.name)) = 2
    /\ \A i \in Named(lastCmd.target.name) : CountOf(calls, i, "turn_off") = 1
    /\ \E i \in (1..N) \ Named(lastCmd.target.name) : Untouched(i)

\* The displays the target of the current run of commands names.
SeqDisplays == IF seq.target.all THEN 1..N ELSE Named(seq.target.name)

\* C7 as stated: after n `down` commands followed by n `up` commands at one
\* target (n >= 1), every display of the target has the brightness (variant
\* and payload) it had before the first of them.
C7_RoundTrip_AsStated ==
    (pc = "accept" /\ seq.downs > 0 /\ seq.ups = seq.downs) =>
        \A i \in SeqDisplays : get_brightness(displays[i].scale) = seq.orig[i]

\* C7, amended: after n `down` commands followed by n `up` commands at one
\* target, every display that received the call of each of the 2n commands
\* (none was held back by a guard) has the brightness it had before.
C7_RoundTrip ==
    (pc = "accept" /\ seq.downs > 0 /\ seq.ups = seq.downs) =>
        \A i \in seq.full : get_brightness(displays[i].scale) = seq.orig[i]

\* Two downs and two ups went through to a display that was not at a
\* bound to begin with.
C7_Witness ==
    /\ pc = "accept" /\ seq.downs = 2 /\ seq.ups = 2
    /\ \E i \in seq.full : is_intermediate(seq.orig[i])

\* C8 as stated: up() leaves the level one lower, down() one higher,
\* set_level(v) leaves it at v, and each returns the brightness of the
\* level it left.
C8_SignConvention_AsStated ==
    /\ probe.op = "up" =>
         /\ ~probe.panic
         /\ probe.scale.level = probe.before.level - 1
         /\ probe.ret = get_brightness(probe.scale)
    /\ probe.op = "down" =>
         /\ ~probe.panic
         /\ probe.scale.level = probe.before.level + 1
         /\ probe.ret = get_brightness(probe.scale)
    /\ probe.op = "set_level" =>
         /\ ~probe.panic
         /\ probe.scale.level = probe.arg
         /\ probe.ret = get_brightness(probe.scale)

\* C9: whatever value_for, get_brightness, up, down or set_level returns
\* on a built scale with min_value <= max_value lies in the device range
\* [min_value, max_value]; a result tagged Max is max_value and one tagged
\* Min is min_value, wherever the reference bounds are.
C9_DeviceBounds ==
    (probe.op # "none" /\ ~probe.panic
     /\ probe.scale.min_value <= probe.scale.max_value) =>
        /\ probe.scale.min_value <= deref(probe.ret)
        /\ deref(probe.ret) <= probe.scale.max_value
        /\ is_max(probe.ret) => value(probe.ret) = probe.scale.max_value
        /\ is_min(probe.ret) => value(probe.ret) = probe.scale.min_value

\* up() on a scale whose reference maximum lies above the device maximum
\* returned the device maximum.
C9_Witness ==
    /\ probe.op = "up" /\ ~probe.panic
    /\ probe.scale.max_value < F32AsUsize(probe.scale.ref_max)
    /\ probe.ret = Max(probe.scale.max_value)

\* C10 as stated: for floor <= v <= ceiling, new(v, floor, ceiling) is
\* Intermediate iff floor < v < ceiling, Min iff v <= floor, Max iff
\* v >= ceiling; value() is v, floor, ceiling respectively.
C10_TriState_AsStated ==
    (cprobe.called /\ cprobe.floor <= cprobe.v /\ cprobe.v <= cprobe.ceiling) =>
        /\ is_intermediate(cprobe.ret) <=> (cprobe.floor < cprobe.v /\ cprobe.v < cprobe.ceiling)
        /\ is_min(cprobe.ret) <=> cprobe.v <= cprobe.floor
        /\ is_max(cprobe.ret) <=> cprobe.v >= cprobe.ceiling
        /\ is_intermediate(cprobe.ret) => cprobe.value = cprobe.v
        /\ is_min(cprobe.ret) => cprobe.value = cprobe.floor
        /\ is_max(cprobe.ret) => cprobe.value = cprobe.ceiling

\* C10, amended: the same with Min iff v <= floor and v < ceiling (when
\* floor = v = ceiling the result is Max).
C10_TriState ==
    (cprobe.called /\ cprobe.floor <= cprobe.v /\ cprobe.v <= cprobe.ceiling) =>
        /\ is_intermediate(cprobe.ret) <=> (cprobe.floor < cprobe.v /\ cprobe.v < cprobe.ceiling)
        /\ is_min(cprobe.ret) <=> (cprobe.v <= cprobe.floor /\ cprobe.v < cprobe.ceiling)
        /\ is_max(cprobe.ret) <=> cprobe.v >= cprobe.ceiling
        /\ is_intermediate(cprobe.ret) => cprobe.value = cprobe.v
        /\ is_min(cprobe.ret) => cprobe.value = cprobe.floor
        /\ is_max(cprobe.ret) => cprobe.value = cprobe.ceiling

\* new was called with floor = v = ceiling and returned Max.
C10_Witness ==
    /\ cprobe.called
    /\ cprobe.floor = cprobe.v /\ cprobe.v = cprobe.ceiling
    /\ cprobe.ret = Max(cprobe.ceiling)
    /\ cprobe.value = cprobe.v

(***************************************************************************)
(* C11.  The Linear scale whose device range and reference range are both  *)
(* [0, 100], built with 9 steps.                                           *)
(***************************************************************************)
\* probe holds a level-to-brightness conversion (value_for, or the value
\* set_level returns) made on the Linear scale [0, 100] / [0, 100].
LinearPercent ==
    /\ probe.op \in {"value_for", "set_level"}
    /\ probe.before.kind = Linear
    /\ probe.before.min_value = 0 /\ probe.before.max_value = 100
    /\ probe.before.ref_min = F32FromInt(0) /\ probe.before.ref_max = F32FromInt(100)

\* C11 as the specification states it: on the Linear scale with device
\* range [0, 100], reference range [0, 100] and 9 steps, level 0 gives
\* Max(100), level 9 gives Intermediate(1) and level -1 gives Max(100).
C11_LinearPoints_AsStated ==
    LinearPercent =>
        /\ probe.arg = 0 => probe.ret = Max(100)
        /\ probe.arg = 9 => probe.ret = Intermediate(1)
        /\ probe.arg = 0 - 1 => probe.ret = Max(100)

\* C11, amended: on the Linear scale with device range [0, 100], reference
\* range [0, 100] and 9 steps, level 0 gives Max(100), level 9 gives Min(0)
\* (100 - 9 * (100 / 9) is 0, the device minimum) and level -1 gives
\* Max(100).
C11_LinearPoints ==
    LinearPercent =>
        /\ probe.arg = 0 => probe.ret = Max(100)
        /\ probe.arg = 9 => probe.ret = Min(0)
        /\ probe.arg = 0 - 1 => probe.ret = Max(100)

C11_Witness ==
    /\ LinearPercent
    /\ probe.op = "value_for"
    /\ probe.arg = 9
    /\ probe.ret = Min(0)

(***************************************************************************)
(* C12.  The Exp2 scale with gamma 2 whose device range and reference      *)
(* range are both [1, 512], built with 9 steps.                            *)
(***************************************************************************)
\* Two f32 denote the same number (a finite one has several records here,
\* one per split of its value into significand and exponent).
F32Eq(a, b) ==
    /\ a.k = b.k /\ a.k # "nan"
    /\ a.k = "fin" =>
         IF a.m = 0 \/ b.m = 0 THEN a.m = b.m ELSE F32Norm(a) = F32Norm(b)

\* probe holds a level-to-brightness conversion made on that scale.
Exp2Stops ==
    /\ probe.op \in {"value_for", "set_level"}
    /\ probe.before.kind = Exp2(F32FromInt(2))
    /\ probe.before.min_value = 1 /\ probe.before.max_value = 512
    /\ probe.before.ref_min = F32FromInt(1) /\ probe.before.ref_max = F32FromInt(512)

\* C12: on the Exp2 scale with gamma 2, reference range [1, 512], device
\* range [1, 512] and 9 steps, the per-step factor is one stop
\* ((log2 512 - log2 1) / 9 = 1), level 0 gives Max(512) and level 9 gives
\* Min(1).
C12_Exp2Points ==
    Exp2Stops =>
        /\ F32Eq(probe.before.idx_factor, F32FromInt(1))
        /\ probe.arg = 0 => probe.ret = Max(512)
        /\ probe.arg = 9 => probe.ret = Min(1)

C12_Witness ==
    /\ Exp2Stops
    /\ probe.op = "value_for"
    /\ probe.arg = 9
    /\ F32Eq(probe.before.idx_factor, F32FromInt(1))
    /\ probe.ret = Min(1)

(***************************************************************************)
(* ScaleBuilder on its own: make is called on a builder on which any       *)
(* subset of the setters was called.  The values are powers of two, which  *)
(* the Exp2 factor takes the logarithm of.                                 *)
(***************************************************************************)
Builders ==
    { [kind |-> kind, max_value |-> max_value, min_value |-> min_value,
       ref_max |-> ref_max, ref_min |-> ref_min] :
        kind \in {None, Some(Linear), Some(Exp2(F32FromInt(2)))},
        max_value \in {None, Some(128), Some(512)},
        min_value \in {None, Some(1), Some(64)},
        ref_max \in {None, Some(256)},
        ref_min \in {None, Some(2)} }

InitBuilder ==
    /\ NoDaemon
    /\ overflow_checks = FALSE
    /\ probe = NoProbe
    /\ cprobe = NoCProbe
    /\ \E builder \in Builders : bprobe = BProbeOf(builder)
    /\ fprobe = NoFProbe
    /\ pprobe = NoPProbe

BuilderMake ==
    /\ ~bprobe.made
    /\ bprobe' = [bprobe EXCEPT !.made = TRUE, !.ret = make(bprobe.builder)]
    /\ UNCHANGED << daemon_vars, probe, cprobe, fprobe, pprobe >>

NextBuilder == BuilderMake

SpecBuilder == InitBuilder /\ [][NextBuilder]_vars

\* Only set_max_value was called on the builder.
OnlyCeiling ==
    /\ bprobe.builder.max_value # None
    /\ bprobe.builder = [ScaleBuilder_new EXCEPT !.max_value = bprobe.builder.max_value]

\* C13: make() fails with the ceiling-required error exactly when
\* max_value was never set, whatever other fields were set; with only
\* max_value set it succeeds with min_value 0, ref_max = max_value,
\* ref_min = min_value and kind Linear.
C13_CeilingRequired ==
    bprobe.made =>
        /\ ~bprobe.ret.ok <=> bprobe.builder.max_value = None
        /\ ~bprobe.ret.ok => bprobe.ret.err = "MaxBrightnessRequired"
        /\ OnlyCeiling =>
            /\ bprobe.ret.ok
            /\ bprobe.ret.scale.max_value = bprobe.builder.max_value[1]
            /\ bprobe.ret.scale.min_value = 0
            /\ F32Eq(bprobe.ret.scale.ref_max, F32FromInt(bprobe.ret.scale.max_value))
            /\ F32Eq(bprobe.ret.scale.ref_min, F32FromInt(bprobe.ret.scale.min_value))
            /\ bprobe.ret.scale.kind = Linear

C13_Witness ==
    /\ bprobe.made
    /\ bprobe.builder.max_value = None
    /\ bprobe.builder.kind # None
    /\ bprobe.builder.min_value # None
    /\ bprobe.builder.ref_max # None
    /\ bprobe.builder.ref_min # None
    /\ ~bprobe.ret.ok
    /\ bprobe.ret.err = "MaxBrightnessRequired"

(***************************************************************************)
(* The configuration on its own: parse_config_document is called on a      *)
(* document with one of the display arrays, a default_level and, or not, a *)
(* `steps` key.                                                            *)
(***************************************************************************)
StepCounts == {3, 9, 18}

Documents ==
    LET plain == {Document(tables, Some(level)) :
                    tables \in {ConfigA, ConfigB, ConfigC, ConfigD},
                    level \in {0 - 128, 0, DEFAULT_LEVEL, 127}}
    IN plain \cup {DocumentSteps(doc, steps) : doc \in plain, steps \in StepCounts}

InitConfig ==
    /\ NoDaemon
    /\ overflow_checks = FALSE
    /\ probe = NoProbe
    /\ cprobe = NoCProbe
    /\ bprobe = NoBProbe
    /\ \E doc \in Documents : fprobe = FProbeOf(doc)
    /\ pprobe = NoPProbe

ConfigParse ==
    /\ ~fprobe.parsed
    /\ fprobe' = [fprobe EXCEPT !.parsed = TRUE,
                                !.config = Some(parse_config_document(fprobe.doc))]
    /\ UNCHANGED << daemon_vars, probe, cprobe, bprobe, pprobe >>

NextConfig == ConfigParse

SpecConfig == InitConfig /\ [][NextConfig]_vars

\* C14 as the specification states it: the idx_factor of every Linear
\* scale built from a configuration is (ref_max - ref_min) / steps, where
\* steps is the step count of that configuration (9 when it has none), so
\* that a configuration with another step count yields another factor.
C14_ConfiguredSteps_AsStated ==
    fprobe.parsed =>
        \A i \in 1..Len(fprobe.config[1].displays) :
            LET scale == fprobe.config[1].displays[i].scale
            IN scale.kind = Linear =>
                 F32Eq(scale.idx_factor,
                       F32Div(F32Sub(scale.ref_max, scale.ref_min),
                              fprobe.config[1].steps_in_reference_range))

(***************************************************************************)
(* The decoding on its own: try_from is called on a line made of a head    *)
(* (one of the nine command words in any mix of upper and lower case, or   *)
(* another word), up to MaxGap spaces and a tail (empty, a target, a path, *)
(* something with spaces in it).                                           *)
(***************************************************************************)
MaxGap == 2

\* The spellings of a word in every mix of upper and lower case.
CaseMixes(word) ==
    { [i \in 1..Len(word) |->
         IF i \in upper
         THEN UpperCase[CHOOSE k \in 1..26 : LowerCase[k] = word[i]]
         ELSE word[i]] : upper \in SUBSET (1..Len(word)) }

Heads ==
    UNION {CaseMixes(Commands[k].tag) : k \in 1..Len(Commands)}
    \cup { << >>,
         << "o" >>,
         << "x" >>,
         << "s", "w", "a", "y" >>,
         << "s", "e", "t" >>,
         << "d", "i", "m" >>,
         << " ", "o", "n" >>,
         << "-", "o", "n" >> }

Tails ==
    { << >>,
      << "a", "l", "l" >>,
      << "A", "L", "L" >>,
      << "a", "L", "l" >>,
      << "a", "l", "l", "o", "y" >>,
      << "D", "P", "-", "3" >>,
      << "D", "P", "-", "3", " ", "x" >>,
      << "a", "l", "l", " ", "x" >>,
      << "/", "r", "u", "n", "/", "s", " ", "w" >>,
      << "\t" >> }

InitParse ==
    /\ NoDaemon
    /\ overflow_checks = FALSE
    /\ probe = NoProbe
    /\ cprobe = NoCProbe
    /\ bprobe = NoBProbe
    /\ fprobe = NoFProbe
    /\ \E head \in Heads, gap \in 0..MaxGap, tail \in Tails :
         pprobe = PProbeOf(head, gap, tail)

ParseLine ==
    /\ ~pprobe.parsed
    /\ pprobe' = [pprobe EXCEPT !.parsed = TRUE, !.ret = try_from(pprobe.input)]
    /\ UNCHANGED << daemon_vars, probe, cprobe, bprobe, fprobe >>

NextParse == ParseLine

SpecParse == InitParse /\ [][NextParse]_vars

(***************************************************************************)
(* C15 .. C18.  What the decoding of a line answers.                       *)
(***************************************************************************)
\* The line in lower case.
Lower(line) == [i \in 1..Len(line) |-> lowercase_byte(line[i])]

\* The line begins with the word (given in lower case), in any case.
BeginsWith(word, line) ==
    Len(line) >= Len(word) /\ Lower(SubSeq(line, 1, Len(word))) = word

\* The maximal run of non-space bytes at the beginning of the line.
FirstToken(line) ==
    LET spaces == {i \in 1..Len(line) : line[i] = " "}
    IN IF spaces = {} THEN line
       ELSE SubSeq(line, 1, (CHOOSE i \in spaces : \A j \in spaces : i <= j) - 1)

\* The same TargetDisplay.
SameTarget(a, b) == a.all = b.all /\ (~a.all => a.name = b.name)

\* The head of the line is the word of command k, in any case.
HeadIs(k) == Lower(pprobe.head) = Commands[k].tag

TargetVerbs == {k \in 1..Len(Commands) : Commands[k].verb # "SwaySock"}

\* C15: each of on, off, up, down, toggle, max, min, default, in any mix
\* of case and followed by a target, decodes to the variant of that verb
\* carrying the decoded target; a line that begins with none of these
\* verbs nor with swaysock is rejected with a parse error.
C15_VerbDecoding ==
    pprobe.parsed =>
        /\ \A k \in TargetVerbs :
             (HeadIs(k) /\ pprobe.gap >= 1 /\ pprobe.tail # << >>) =>
                 /\ pprobe.ret.ok
                 /\ pprobe.ret.cmd.verb = Commands[k].verb
                 /\ SameTarget(pprobe.ret.cmd.target, display(pprobe.tail).out)
        /\ (\A k \in 1..Len(Commands) : ~BeginsWith(Commands[k].tag, pprobe.input)) =>
             /\ ~pprobe.ret.ok
             /\ pprobe.ret.err = "BadParse"

C15_Witness ==
    /\ pprobe.parsed
    /\ pprobe.head = << "D", "o", "W", "n" >>
    /\ pprobe.gap = 1
    /\ pprobe.tail = << "D", "P", "-", "3" >>
    /\ pprobe.ret.ok
    /\ pprobe.ret.cmd = BacklightCommand("Down", TargetDisplay(<< "D", "P", "-", "3" >>))

\* C16 as the specification states it: a recognized verb with no argument
\* (the verb alone, or followed only by spaces) fails with a parse error,
\* for every target-taking verb and for swaysock.
C16_MissingArgument_AsStated ==
    (pprobe.parsed /\ pprobe.tail = << >> /\ \E k \in 1..Len(Commands) : HeadIs(k)) =>
        /\ ~pprobe.ret.ok
        /\ pprobe.ret.err = "BadParse"

\* C17 as the specification states it: the target of a target-taking
\* command decodes to All if and only if the target token is exactly `all`
\* in any case; every other token decodes to the display named by the
\* bytes of the token, unchanged.
C17_TargetAll_AsStated ==
    (/\ pprobe.parsed
     /\ \E k \in TargetVerbs : HeadIs(k)
     /\ pprobe.gap >= 1
     /\ FirstToken(pprobe.tail) # << >>) =>
        /\ pprobe.ret.ok
        /\ pprobe.ret.cmd.target.all <=> Lower(FirstToken(pprobe.tail)) = << "a", "l", "l" >>
        /\ ~pprobe.ret.cmd.target.all =>
             pprobe.ret.cmd.target.name = FirstToken(pprobe.tail)

\* C18: swaysock, separating spaces and a path decode to the SwaySock
\* command that carries the whole remainder of the line after the
\* separating spaces, byte for byte, embedded spaces included.
C18_SwaySockPath ==
    (/\ pprobe.parsed
     /\ Lower(pprobe.head) = << "s", "w", "a", "y", "s", "o", "c", "k" >>
     /\ pprobe.gap >= 1
     /\ pprobe.tail # << >>) =>
        /\ pprobe.ret.ok
        /\ pprobe.ret.cmd.verb = "SwaySock"
        /\ ~pprobe.ret.cmd.target.all
        /\ pprobe.ret.cmd.target.name = pprobe.tail

C18_Witness ==
    /\ pprobe.parsed
    /\ Lower(pprobe.head) = << "s", "w", "a", "y", "s", "o", "c", "k" >>
    /\ pprobe.head # << "s", "w", "a", "y", "s", "o", "c", "k" >>
    /\ pprobe.gap = MaxGap
    /\ pprobe.tail = << "/", "r", "u", "n", "/", "s", " ", "w" >>
    /\ pprobe.ret.ok
    /\ pprobe.ret.cmd = SwaySock(<< "/", "r", "u", "n", "/", "s", " ", "w" >>)

\* C19: dispatching Max, Min or Default, at any target, ends in the
\* not-implemented outcome (todo!() panics with "not yet implemented"),
\* issues no hardware call and changes no display's stored level or power
\* state.
C19_Unimplemented ==
    lastCmd.verb \in {"Max", "Min", "Default"} =>
        /\ pc = "panicked"
        /\ calls = << >>
        /\ hw = << >>
        /\ Levels(displays) = pre.levels
        /\ dpms = pre.dpms
        /\ swaysock = pre.swaysock

C19_Witness ==
    /\ lastCmd = BacklightCommand("Max", TargetDisplay("a"))
    /\ Named("a") # {}
    /\ ncmds = MaxCmds
    /\ pc = "panicked"
    /\ hw = << >>
    /\ Levels(displays) = pre.levels

(***************************************************************************)
(* C20.  A command at a display that lacks the control method for it.      *)
(***************************************************************************)
PowerVerb == lastCmd.verb \in {"On", "Off", "Toggle"}
StepVerb == lastCmd.verb \in {"Up", "Down"}

\* The last command was aimed at display i.
Targeted(i) == lastCmd.target.all \/ displays[i].name = lastCmd.target.name

\* Display i has no control method for the last command.
Incapable(i) ==
    IF PowerVerb THEN displays[i].dpms_control = None
    ELSE displays[i].brightness_control = None

\* Display j received the operation of the last command: the turn_on or
\* turn_off call of On and Off, the is_on call of a named Toggle, a turn_on
\* or a turn_off call of Toggle all, the up or down call of Up and Down
\* unless the saturation guard skipped it (C1, C2).
Received(j) ==
    IF lastCmd.verb = "On" THEN CountOf(calls, j, "turn_on") = 1
    ELSE IF lastCmd.verb = "Off" THEN CountOf(calls, j, "turn_off") = 1
    ELSE IF lastCmd.verb = "Toggle" /\ ~lastCmd.target.all
    THEN CountOf(calls, j, "is_on") = 1
    ELSE IF lastCmd.verb = "Toggle"
    THEN CountOf(calls, j, "turn_on") + CountOf(calls, j, "turn_off") = 1
    ELSE IF lastCmd.target.all
    THEN (\E k \in 1..N : ~AtBound(k)) => CountOf(calls, j, StepCall) = 1
    ELSE ~AtBound(j) => CountOf(calls, j, StepCall) = 1

\* The power node of the lead display was read.
LeadRead == \E k \in 1..Len(hw) : hw[k] = [d |-> 1, op |-> "read_dpms", v |-> 0, ok |-> TRUE]

\* C20 as the specification states it: after a power command (on, off,
\* toggle) aimed at a display with no power control method, or a brightness
\* command (up, down) aimed at a display with no brightness control method,
\* no hardware operation was attempted for that display and none failed,
\* and every other display the command was aimed at received its operation.
C20_SilentSkip_AsStated ==
    (Returned /\ (PowerVerb \/ StepVerb)) =>
        \A i \in 1..N :
            (Targeted(i) /\ Incapable(i)) =>
                /\ HwOn(i) = << >>
                /\ \A j \in 1..N \ {i} : Targeted(j) => Received(j)

\* C20, amended: the same, except that a `toggle all` reaches no display
\* when the power state of the lead display cannot be read (it has no
\* sysfs power node, or the read fails).
C20_SilentSkip ==
    (Returned /\ (PowerVerb \/ StepVerb)) =>
        \A i \in 1..N :
            (Targeted(i) /\ Incapable(i)) =>
                /\ HwOn(i) = << >>
                /\ ~(lastCmd = BacklightCommand("Toggle", All) /\ ~LeadRead) =>
                     \A j \in 1..N \ {i} : Targeted(j) => Received(j)

\* An `on all` skipped a display without a power control method and turned
\* another display on.
C20_Witness ==
    /\ Returned /\ lastCmd = BacklightCommand("On", All)
    /\ \E i, j \in 1..N :
         /\ displays[i].dpms_control = None
         /\ CountOf(calls, i, "turn_on") = 1
         /\ HwOn(i) = << >>
         /\ displays[j].dpms_control # None
         /\ HwOn(j) # << >>
         /\ Failed = {}

(***************************************************************************)
(* The daemon with clients that keep sending lines: run blocks in          *)
(* listener.accept and takes up every connection made, so a command is     *)
(* taken whenever the daemon is there to take one.                         *)
(***************************************************************************)
\* Next can take a step: main is about to set the default levels, or run is
\* at listener.accept.
CanStep == pc = "start" \/ Accepting

\* Weak fairness of Next, with its enabling condition written out; every
\* step of Spec that changes the state is a step of Next.
SpecLive == Spec /\ ([]<>(~CanStep) \/ []<><<TRUE>>_vars)

\* C21: a line that fails to decode changes no display's stored level or
\* power state, issues no call and no hardware operation, leaves SWAYSOCK
\* as it was and leaves the daemon at listener.accept; the daemon then
\* accepts and processes the next command.
C21_ParseRecovery ==
    /\ [](lastCmd = BadParse =>
            /\ pc = "accept"
            /\ calls = << >>
            /\ hw = << >>
            /\ Levels(displays) = pre.levels
            /\ dpms = pre.dpms
            /\ swaysock = pre.swaysock)
    /\ \A n \in 1..(MaxCmds - 1) :
         (lastCmd = BadParse /\ ncmds = n) ~> (ncmds = n + 1)

\* A line that did not decode came after a swaysock command and left its
\* effect alone.
C21_Witness ==
    /\ lastCmd = BadParse
    /\ ncmds = MaxCmds
    /\ pc = "accept"
    /\ hw = << >>
    /\ swaysock # ""
    /\ swaysock = pre.swaysock

\* The default level of the configuration the daemon started from: the
\* Config's default_level, which is the integer of the document when that
\* is an i8, and 4 when the document has none.
ConfiguredLevel ==
    /\ default_level = fprobe.config[1].default_level
    /\ fprobe.doc.default_level = None => default_level = 4
    /\ (fprobe.doc.default_level # None /\ i8_in_range(fprobe.doc.default_level[1])) =>
         default_level = fprobe.doc.default_level[1]

\* C22: when run is entered, before the first command is accepted, the
\* stored level of every display is the configured default level, whether
\* or not the brightness write to its hardware succeeded; the first up or
\* down command starts from that level.
C22_StartupDefault ==
    /\ ConfiguredLevel
    /\ (pc = "accept" /\ ncmds = 0) =>
         \A i \in 1..N : displays[i].scale.level = default_level
    /\ (ncmds = 1 /\ lastCmd.verb \in {"Up", "Down"}) =>
         \A i \in 1..N : pre.levels[i] = default_level

\* The write to one display failed at startup; its level and the levels of
\* the displays after it are the default level all the same.
C22_Witness ==
    /\ pc = "accept" /\ ncmds = 0
    /\ default_level # DEFAULT_LEVEL
    /\ 1 \in Failed
    /\ N > 1
    /\ \A i \in 1..N : displays[i].scale.level = default_level

\* C23: the display name of a target-taking command that names a display
\* is the maximal run of non-space bytes after the verb and its separating
\* spaces; the bytes after that run are not part of the name, and the line
\* decodes, to the same command, with them as without them.
C23_TokenBoundary ==
    (pprobe.parsed /\ \E k \in TargetVerbs : HeadIs(k)) =>
        LET cut == try_from(pprobe.head \o Spaces(pprobe.gap) \o FirstToken(pprobe.tail))
        IN /\ pprobe.ret.ok
           /\ ~pprobe.ret.cmd.target.all =>
                pprobe.ret.cmd.target.name = FirstToken(pprobe.tail)
           /\ cut.ok
           /\ cut.cmd.verb = pprobe.ret.cmd.verb
           /\ SameTarget(cut.cmd.target, pprobe.ret.cmd.target)

C23_Witness ==
    /\ pprobe.parsed
    /\ pprobe.head = << "o", "f", "f" >>
    /\ pprobe.gap = 1
    /\ pprobe.tail = << "D", "P", "-", "3", " ", "x" >>
    /\ pprobe.ret.ok
    /\ pprobe.ret.cmd = BacklightCommand("Off", TargetDisplay(<< "D", "P", "-", "3" >>))

(***************************************************************************)
(* C24.  The power axis and the brightness axis.                           *)
(***************************************************************************)
BrightnessCalls == {"brightness_up", "brightness_down", "set_brightness_level"}
BrightnessOps == {"write_brightness", "ddcutil_setvcp"}
PowerCalls == {"turn_on", "turn_off", "is_on", "is_off"}
PowerOps == {"read_dpms", "write_dpms", "swaymsg_power_on", "swaymsg_power_off"}

\* C24: On, Off, Toggle and SwaySock change no display's stored level and
\* issue no brightness write; Up and Down issue no power call and no read
\* of a power state; SwaySock changes SWAYSOCK only and touches no display.
C24_AxisSeparation ==
    /\ lastCmd.verb \in {"On", "Off", "Toggle", "SwaySock"} =>
         /\ Levels(displays) = pre.levels
         /\ \A k \in 1..Len(calls) : calls[k].op \notin BrightnessCalls
         /\ \A k \in 1..Len(hw) : hw[k].op \notin BrightnessOps
    /\ lastCmd.verb \in {"Up", "Down"} =>
         /\ dpms = pre.dpms
         /\ \A k \in 1..Len(calls) : calls[k].op \notin PowerCalls
         /\ \A k \in 1..Len(hw) : hw[k].op \notin PowerOps
    /\ lastCmd.verb = "SwaySock" =>
         /\ swaysock = lastCmd.target.name
         /\ calls = << >>
         /\ hw = << >>
         /\ dpms = pre.dpms

\* An `on` at a named display wrote a power node, away from the default
\* level, and left the levels alone.
C24_Witness ==
    /\ lastCmd = BacklightCommand("On", TargetDisplay("a"))
    /\ \E k \in 1..Len(hw) : hw[k].op = "write_dpms" /\ hw[k].ok
    /\ \E i \in Named("a") : displays[i].scale.level # DEFAULT_LEVEL
    /\ Levels(displays) = pre.levels

\* The level at which the step of the last command leaves the i8 range.
StepEdge == IF lastCmd.verb = "Up" THEN 0 - 128 ELSE 127

\* C25 as the specification states it: under any sequence of up and down
\* commands every stored level stays within [-128, 127], and no up call is
\* issued to a display whose level is -128, no down call to one whose level
\* is 127.
C25_LevelRange_AsStated ==
    /\ \A i \in 1..N : i8_in_range(displays[i].scale.level)
    /\ lastCmd.verb \in {"Up", "Down"} =>
         \A i \in 1..N :
             CountOf(calls, i, StepCall) > 0 => pre.levels[i] # StepEdge

\* C26 as the specification states it: an `up all` or `down all` changes
\* the stored level of every display by the same amount, -1 for all, +1
\* for all or 0 for all.
C26_InStep_AsStated ==
    (Returned /\ lastCmd.verb \in {"Up", "Down"} /\ lastCmd.target.all) =>
        \E delta \in {0 - 1, 0, 1} :
            \A i \in 1..N : displays[i].scale.level = pre.levels[i] + delta

\* C27 as the specification states it: every up (resp. down) call issued to
\* a display leaves its stored level exactly one lower (resp. higher),
\* whether the hardware write succeeded, failed or was not attempted for
\* want of a brightness control method.
C27_NoRollback_AsStated ==
    lastCmd.verb \in {"Up", "Down"} =>
        \A i \in 1..N :
            CountOf(calls, i, StepCall) = 1 =>
                displays[i].scale.level =
                    pre.levels[i] + (IF lastCmd.verb = "Up" THEN 0 - 1 ELSE 1)

\* C28 as the specification states it: the dispatch of every decoded
\* command returns to the command loop; no command ends the daemon.
C28_LoopSurvives_AsStated == pc # "panicked"

=============================================================================
